---------------------------- MODULE Spec2Model ----------------------------
(***************************************************************************)
(* Duplicate detection of src/app.py: compute_duplicates (the Grouper and  *)
(* the Differ), build_query_from_input and the request handler index.      *)
(*                                                                         *)
(* A DataFrame is a record [columns, rows]: columns is the ordered list of *)
(* column names, rows the ordered list of [idx, val] with idx the index    *)
(* label of the row (its position in the query result) and val the mapping *)
(* from column name to scalar.  The library calls are modelled by what     *)
(* pandas 2.x does: duplicated/sort_values treat two missing values as     *)
(* equal and sort them last, groupby (dropna=True) leaves out every row    *)
(* with a missing key, nunique (dropna=True) does not count missing        *)
(* values.                                                                 *)
(***************************************************************************)
EXTENDS Integers, Sequences, FiniteSets, TLC

VARIABLES
    pc,             \* position of the running call or request
    method,         \* request.method of the request index serves
    source,         \* query_input: the raw text of the form, a list of characters
    query,          \* outcome of build_query_from_input
    keys,           \* selected_keys: the key list
    df,             \* the table: the query result, compute_duplicates' input
    result,         \* outcome of compute_duplicates
    core_calls,     \* number of invocations of compute_duplicates
    response        \* what index flashes and hands to render_template

vars == <<pc, method, source, query, keys, df, result, core_calls, response>>

(***************************************************************************)
(* Bounds of the model.                                                    *)
(***************************************************************************)
MaxRows == 3         \* rows of a table given to compute_duplicates
MaxVal == 2          \* non-missing scalars are 1..MaxVal
MaxKeys == 2         \* length of a key list
MaxResultRows == 2   \* rows of the query result of a modelled request
MaxPad == 2          \* whitespace characters around the query text

\* The missing value (None / NaN / SQL NULL).
NULL == 0

Values == {NULL} \cup (1..MaxVal)

\* Column names; Schemas are the column lists of the modelled query results.
ORDEM == "ordem"
Schemas == { <<"flight_number", "status">>, <<"flight_number", ORDEM>> }
ColumnNames == {"flight_number", "status", ORDEM}

Range(s) == {s[i] : i \in DOMAIN s}

NoDF == [columns |-> <<>>, rows |-> <<>>]

--------------------------------------------------------------------------
(***************************************************************************)
(* Ordering of scalars and of key tuples: ascending, missing values last.  *)
(***************************************************************************)
ScalarLess(x, y) ==
    IF x = NULL THEN FALSE ELSE IF y = NULL THEN TRUE ELSE x < y

RECURSIVE TupleLess(_, _)
TupleLess(s, t) ==
    IF s = <<>> \/ t = <<>> THEN FALSE
    ELSE IF Head(s) = Head(t) THEN TupleLess(Tail(s), Tail(t))
    ELSE ScalarLess(Head(s), Head(t))

\* row[keys]: the projection of a row's values on a list of columns
Proj(val, ks) == [i \in DOMAIN ks |-> val[ks[i]]]

isna(x) == x = NULL

HasNullKey(val, ks) == \E i \in DOMAIN ks : isna(val[ks[i]])

\* df.empty
Empty(d) == Len(d.rows) = 0 \/ Len(d.columns) = 0

--------------------------------------------------------------------------
(***************************************************************************)
(* compute_duplicates, line by line.                                       *)
(***************************************************************************)

\* keep="first" in place of keep=False: the first row of a group is not marked
duplicated_first(d, ks) ==
    [i \in DOMAIN d.rows |->
        \E j \in DOMAIN d.rows :
            j < i /\ Proj(d.rows[j].val, ks) = Proj(d.rows[i].val, ks)]

\* df.duplicated(subset=ks, keep=False): a row is marked when another row has
\* the same values on every column of ks (missing = missing).
duplicated(d, ks) ==
    [i \in DOMAIN d.rows |->
        \E j \in DOMAIN d.rows :
            j # i /\ Proj(d.rows[j].val, ks) = Proj(d.rows[i].val, ks)]

\* df.loc[mask].copy(): the marked rows, in order, with their index labels
loc(d, mask) ==
    LET kept == {i \in DOMAIN d.rows : mask[i]}
        nth(p) == CHOOSE i \in kept : Cardinality({j \in kept : j <= i}) = p
    IN  [columns |-> d.columns,
         rows |-> [p \in 1..Cardinality(kept) |-> d.rows[nth(p)]]]

\* sort_values(ks): ascending by the key columns only, missing last; rows with
\* equal keys keep their relative order (lexsort; for one key numpy's sort of
\* a short array is an insertion sort).
sort_values(d, ks) ==
    LET n == Len(d.rows)
        key(i) == Proj(d.rows[i].val, ks)
        rank(i) == 1 + Cardinality({j \in 1..n :
                        \/ TupleLess(key(j), key(i))
                        \/ (key(j) = key(i) /\ j < i)})
    IN  [columns |-> d.columns,
         rows |-> [p \in 1..n |-> d.rows[CHOOSE i \in 1..n : rank(i) = p]]]

\* groupby(ks).cumcount() + 1: the 1-based position of a row among the rows of
\* its group so far; NaN for a row that groupby drops (a missing key: since
\* pandas 1.5 cumcount answers NaN for the rows of a dropped group).
cumcount_plus_1(d, ks) ==
    [p \in DOMAIN d.rows |->
        IF HasNullKey(d.rows[p].val, ks) THEN NULL
        ELSE 1 + Cardinality({q \in 1..(p - 1) :
                 Proj(d.rows[q].val, ks) = Proj(d.rows[p].val, ks)})]

\* duplicates_df["ordem"] = ...: sets the column, appended when it is new,
\* overwritten in place when the table already has it
set_ordem(d, ord) ==
    LET cols == IF ORDEM \in Range(d.columns) THEN d.columns
                ELSE Append(d.columns, ORDEM)
    IN  [columns |-> cols,
         rows |-> [p \in DOMAIN d.rows |->
                    [idx |-> d.rows[p].idx,
                     val |-> [c \in Range(cols) |->
                                IF c = ORDEM THEN ord[p] ELSE d.rows[p].val[c]]]]]

\* duplicates_df[["ordem"] + [col for col in columns if col != "ordem"]]
ordem_first(d) ==
    LET NotOrdem(c) == c # ORDEM
    IN  [columns |-> <<ORDEM>> \o SelectSeq(d.columns, NotOrdem),
         rows |-> d.rows]

\* [col for col in df.columns if col not in keys]
non_key_columns(d, ks) ==
    LET NotKey(c) == c \notin Range(ks)
    IN  SelectSeq(d.columns, NotKey)

\* group[col].nunique(): the number of distinct non-missing values
nunique(rows, members, col) ==
    Cardinality({rows[p].val[col] : p \in members} \ {NULL})

\* for group_keys, group in duplicates_df.groupby(keys): one record per key
\* tuple without a missing value, in ascending order of the key tuple
difference_summary(dup, d, ks) ==
    LET rows == dup.rows
        grouped == {p \in DOMAIN rows : ~HasNullKey(rows[p].val, ks)}
        gkeys == {Proj(rows[p].val, ks) : p \in grouped}
        members(k) == {p \in grouped : Proj(rows[p].val, ks) = k}
        nth(g) == CHOOSE k \in gkeys :
                     Cardinality({u \in gkeys : TupleLess(u, k)}) = g - 1
        Differs(k, c) == nunique(rows, members(k), c) > 1
        diff(k) == LET Test(c) == Differs(k, c)
                   IN  SelectSeq(non_key_columns(d, ks), Test)
    IN  [g \in 1..Cardinality(gkeys) |->
            [key |-> nth(g),
             duplicate_count |-> Cardinality(members(nth(g))),
             difference_columns |-> diff(nth(g))]]

\* The outcome of a call: "ok" with the returned pair, or the exception raised.
Returned(d, s) == [outcome |-> "ok", rows |-> d, summary |-> s]
Raised(e) == [outcome |-> e, rows |-> NoDF, summary |-> <<>>]
NoResult == [outcome |-> "none", rows |-> NoDF, summary |-> <<>>]

compute_duplicates(d, ks) ==
    IF Empty(d) THEN Returned(d, <<>>)
    \* DataFrame.duplicated raises KeyError for a name that is no column and
    \* fails unpacking the labels of an empty subset (ValueError)
    ELSE IF \E i \in DOMAIN ks : ks[i] \notin Range(d.columns) THEN Raised("KeyError")
    ELSE IF ks = <<>> THEN Raised("ValueError")
    ELSE LET duplicates_df == loc(d, duplicated(d, ks))
         IN  IF Empty(duplicates_df) THEN Returned(duplicates_df, <<>>)
             ELSE LET sorted == sort_values(duplicates_df, ks)
                      with_ordem == set_ordem(sorted, cumcount_plus_1(sorted, ks))
                      out == ordem_first(with_ordem)
                  IN  Returned(out, difference_summary(out, d, ks))


--------------------------------------------------------------------------
(***************************************************************************)
(* build_query_from_input.  A text is a list of one-character strings.     *)
(***************************************************************************)
Whitespace == {" ", "\t"}

\* str.lower() on one character, over the letters the modelled texts use
LowerChar(c) ==
    CASE c = "S" -> "s" [] c = "E" -> "e" [] c = "L" -> "l" [] c = "C" -> "c"
      [] c = "T" -> "t" [] c = "W" -> "w" [] c = "I" -> "i" [] c = "H" -> "h"
      [] c = "F" -> "f" [] c = "R" -> "r" [] c = "O" -> "o" [] c = "M" -> "m"
      [] OTHER -> c

lower(s) == [i \in DOMAIN s |-> LowerChar(s[i])]

RECURSIVE lstrip(_)
lstrip(s) ==
    IF s # <<>> /\ Head(s) \in Whitespace THEN lstrip(Tail(s)) ELSE s

RECURSIVE rstrip(_)
rstrip(s) ==
    IF s # <<>> /\ s[Len(s)] \in Whitespace
    THEN rstrip(SubSeq(s, 1, Len(s) - 1)) ELSE s

\* str.strip()
strip(s) == rstrip(lstrip(s))

startswith(s, prefix) ==
    Len(s) >= Len(prefix) /\ SubSeq(s, 1, Len(prefix)) = prefix

kw_select == <<"s", "e", "l", "e", "c", "t">>
kw_with == <<"w", "i", "t", "h">>
SELECT_FROM == <<"S", "E", "L", "E", "C", "T", " ", "*", " ", "F", "R", "O", "M", " ">>

QueryOk(text) == [ok |-> TRUE, text |-> text]
QueryError == [ok |-> FALSE, text |-> <<>>]    \* raise ValueError(...)

\* source.strip() left out
build_query_no_strip(src) ==
    LET cleaned == src
        lowered == lower(cleaned)
    IN  IF cleaned = <<>> THEN QueryError
        ELSE IF startswith(lowered, kw_select) \/ startswith(lowered, kw_with)
             THEN QueryOk(cleaned)
             ELSE QueryOk(SELECT_FROM \o cleaned)

build_query_from_input(src) ==
    LET cleaned == strip(src)
        lowered == lower(cleaned)
    IN  IF cleaned = <<>> THEN QueryError
        ELSE IF startswith(lowered, kw_select) \/ startswith(lowered, kw_with)
             THEN QueryOk(cleaned)
             ELSE QueryOk(SELECT_FROM \o cleaned)

--------------------------------------------------------------------------
(***************************************************************************)
(* The inputs of the model.                                                *)
(***************************************************************************)
\* the table with the columns cols and the row values s[1], ..., s[len]
Table(cols, s) ==
    [columns |-> cols,
     rows |-> [i \in DOMAIN s |-> [idx |-> i, val |-> s[i]]]]

\* the row values of the tables with the columns cols and len rows
RowValues(cols, len) == [1..len -> [Range(cols) -> Values]]

\* every list of at most MaxKeys distinct names: the empty list, lists of
\* columns, and lists with a name that is no column of the table
KeyLists ==
    UNION { { ks \in [1..len -> ColumnNames] :
                \A i, j \in 1..len : i # j => ks[i] # ks[j] } :
            len \in 0..MaxKeys }

Pads == UNION { [1..len -> Whitespace] : len \in 0..MaxPad }

Prefixes ==
    { <<>>,
      <<"s", "e", "l", "e", "c", "t">>, <<"S", "E", "L", "E", "C", "T">>,
      <<"S", "e", "l", "e", "c", "t">>, <<"s", "e", "l", "e", "c">>,
      <<"w", "i", "t", "h">>, <<"W", "I", "T", "H">>, <<"w", "i", "T", "h">>,
      <<"w", "i", "t">>,
      <<"f", "l", "i", "g", "h", "t", "s">> }

Suffixes == { <<>>, <<" ", "x">>, <<"i", "o", "n">> }

\* the texts a form can hold: padding, a first word, a rest, padding
Sources ==
    { a \o p \o s \o b : a \in Pads, p \in Prefixes, s \in Suffixes, b \in Pads }

\* the texts the modelled requests post
HandlerSources ==
    { <<>>, <<" ">>, <<"f", "l", "i", "g", "h", "t", "s">>,
      <<" ", "S", "E", "L", "E", "C", "T", " ", "x">> }

NoQuery == [ok |-> FALSE, text |-> <<>>]

NoResponse ==
    [rendered |-> FALSE, flash |-> "none", message |-> "none",
     duplicates_table_is_none |-> TRUE, duplicates_table |-> <<>>,
     difference_summary |-> <<>>, available_columns |-> <<>>]

--------------------------------------------------------------------------
(***************************************************************************)
(* A direct call of compute_duplicates on any table and any key list.      *)
(***************************************************************************)
InitCore ==
    /\ pc = "start"
    /\ method = "none"
    /\ df = NoDF
    /\ keys = <<>>
    /\ source = <<>>
    /\ query = NoQuery
    /\ result = NoResult
    /\ core_calls = 0
    /\ response = NoResponse

\* the caller's arguments: any table, any key list
ChooseArguments ==
    /\ pc = "start"
    /\ \E cols \in Schemas, len \in 0..MaxRows :
          \E s \in RowValues(cols, len) : df' = Table(cols, s)
    /\ keys' \in KeyLists
    /\ pc' = "call"
    /\ UNCHANGED <<method, source, query, result, core_calls, response>>

CallComputeDuplicates ==
    /\ pc = "call"
    /\ result' = compute_duplicates(df, keys)
    /\ core_calls' = core_calls + 1
    /\ pc' = "returned"
    /\ UNCHANGED <<method, source, query, keys, df, response>>

NextCore == ChooseArguments \/ CallComputeDuplicates

SpecCore == InitCore /\ [][NextCore]_vars

(***************************************************************************)
(* A direct call of build_query_from_input on any text.                    *)
(***************************************************************************)
InitQuery ==
    /\ pc = "call"
    /\ method = "none"
    /\ source \in Sources
    /\ query = NoQuery
    /\ keys = <<>>
    /\ df = NoDF
    /\ result = NoResult
    /\ core_calls = 0
    /\ response = NoResponse

CallBuildQuery ==
    /\ pc = "call"
    /\ query' = build_query_from_input(source)
    /\ pc' = "returned"
    /\ UNCHANGED <<method, source, keys, df, result, core_calls, response>>

NextQuery == CallBuildQuery

SpecQuery == InitQuery /\ [][NextQuery]_vars


--------------------------------------------------------------------------
(***************************************************************************)
(* The request handler index.  run_query is the external collaborator: it  *)
(* raises, or returns some table.                                          *)
(***************************************************************************)
\* render_template(...) of an early return: no table, no summary
ErrorPage(category, message, available) ==
    [rendered |-> TRUE, flash |-> category, message |-> message,
     duplicates_table_is_none |-> TRUE, duplicates_table |-> <<>>,
     difference_summary |-> <<>>, available_columns |-> available]

\* the check of the selected keys against the result's columns left out
missing_keys_unchecked(ks, d) == <<>>

\* [key for key in selected_keys if key not in df.columns]
missing_keys(ks, d) ==
    LET Missing(k) == k \notin Range(d.columns)
    IN  SelectSeq(ks, Missing)

\* if not selected_keys
no_selected_keys(ks) == ks = <<>>

\* lines 230-250: the call of the core and the final render_template
ResultPage(res, available) ==
    IF res.outcome # "ok"
    THEN [rendered |-> FALSE, flash |-> "none", message |-> res.outcome,
          duplicates_table_is_none |-> TRUE, duplicates_table |-> <<>>,
          difference_summary |-> <<>>, available_columns |-> available]
    ELSE IF Empty(res.rows)
    THEN [rendered |-> TRUE, flash |-> "info", message |-> "no_duplicates",
          duplicates_table_is_none |-> TRUE, duplicates_table |-> <<>>,
          difference_summary |-> res.summary, available_columns |-> available]
    ELSE [rendered |-> TRUE, flash |-> "none", message |-> "none",
          duplicates_table_is_none |-> FALSE, duplicates_table |-> res.rows.rows,
          difference_summary |-> res.summary, available_columns |-> available]

Init ==
    /\ pc = "idle"
    /\ method = "none"
    /\ source = <<>>
    /\ query = NoQuery
    /\ keys = <<>>
    /\ df = NoDF
    /\ result = NoResult
    /\ core_calls = 0
    /\ response = NoResponse

\* request.method == "GET": the empty page
Get ==
    /\ pc = "idle"
    /\ method' = "GET"
    /\ response' = [NoResponse EXCEPT !.rendered = TRUE]
    /\ pc' = "done"
    /\ UNCHANGED <<source, query, keys, df, result, core_calls>>

\* request.method == "POST": the form's query text and selected keys
Post ==
    /\ pc = "idle"
    /\ method' = "POST"
    /\ \E src \in HandlerSources, ks \in KeyLists :
          /\ source' = src
          /\ keys' = ks
    /\ pc' = "build"
    /\ UNCHANGED <<query, df, result, core_calls, response>>

BuildQuery ==
    /\ pc = "build"
    /\ query' = build_query_from_input(source)
    /\ IF query'.ok
       THEN pc' = "run" /\ UNCHANGED response
       ELSE /\ response' = ErrorPage("danger", "invalid_query", <<>>)
            /\ pc' = "done"
    /\ UNCHANGED <<method, source, keys, df, result, core_calls>>

RunQueryFails ==
    /\ pc = "run"
    /\ response' = ErrorPage("danger", "query_error", <<>>)
    /\ pc' = "done"
    /\ UNCHANGED <<method, source, query, keys, df, result, core_calls>>

RunQueryReturns ==
    /\ pc = "run"
    /\ \E cols \in Schemas, len \in 0..MaxResultRows :
          \E s \in RowValues(cols, len) : df' = Table(cols, s)
    /\ pc' = "check_selected"
    /\ UNCHANGED <<method, source, query, keys, result, core_calls, response>>

CheckSelected ==
    /\ pc = "check_selected"
    /\ IF no_selected_keys(keys)
       THEN /\ response' = ErrorPage("info", "no_keys", df.columns)
            /\ pc' = "done"
       ELSE pc' = "check_missing" /\ UNCHANGED response
    /\ UNCHANGED <<method, source, query, keys, df, result, core_calls>>

CheckMissing ==
    /\ pc = "check_missing"
    /\ IF missing_keys(keys, df) # <<>>
       THEN /\ response' = ErrorPage("danger", "missing_keys", df.columns)
            /\ pc' = "done"
       ELSE pc' = "compute" /\ UNCHANGED response
    /\ UNCHANGED <<method, source, query, keys, df, result, core_calls>>

Compute ==
    /\ pc = "compute"
    /\ result' = compute_duplicates(df, keys)
    /\ core_calls' = core_calls + 1
    /\ response' = ResultPage(result', df.columns)
    /\ pc' = "done"
    /\ UNCHANGED <<method, source, query, keys, df>>

Next ==
    \/ Get
    \/ Post
    \/ BuildQuery
    \/ RunQueryFails
    \/ RunQueryReturns
    \/ CheckSelected
    \/ CheckMissing
    \/ Compute

Spec == Init /\ [][Next]_vars


--------------------------------------------------------------------------
(***************************************************************************)
(* Properties.  Returned: the call of compute_duplicates has returned or   *)
(* raised.  A returned row is identified with the input row of its index   *)
(* label; InKey is that input row's key projection.                        *)
(***************************************************************************)
CoreReturned == pc = "returned" /\ core_calls = 1

ValidKeys == keys # <<>> /\ \A i \in DOMAIN keys : keys[i] \in Range(df.columns)

\* the table has no column named ordem of its own
NoOrdemColumn == ORDEM \notin Range(df.columns)

Out == result.rows.rows

InRow(p) == df.rows[Out[p].idx].val

InKey(p) == Proj(InRow(p), keys)

SameKey(i, j) == \A k \in Range(keys) : df.rows[i].val[k] = df.rows[j].val[k]

\* C1  Group completeness: with a valid key list the call returns normally, an
\* input row is among the returned rows iff another input row has the same
\* values on all key columns (two missing values being the same), it is
\* returned once, and every returned row is an input row (its values on the
\* columns other than the ordinal column are those of the input row).
C1_GroupCompleteness ==
    (CoreReturned /\ ValidKeys) =>
        /\ result.outcome = "ok"
        /\ \A i \in DOMAIN df.rows :
              (\E p \in DOMAIN Out : Out[p].idx = i)
                  <=> (\E j \in DOMAIN df.rows : j # i /\ SameKey(i, j))
        /\ \A p, q \in DOMAIN Out : Out[p].idx = Out[q].idx => p = q
        /\ \A p \in DOMAIN Out :
              /\ Out[p].idx \in DOMAIN df.rows
              /\ \A c \in Range(df.columns) \ {ORDEM} : Out[p].val[c] = InRow(p)[c]

\* a pair with a missing key is returned, the singleton third row is not
C1_Witness ==
    /\ CoreReturned
    /\ keys = <<"flight_number">>
    /\ Len(df.rows) = 3
    /\ df.rows[1].val["flight_number"] = NULL
    /\ df.rows[2].val["flight_number"] = 1
    /\ df.rows[3].val["flight_number"] = NULL
    /\ Len(Out) = 2
    /\ Out[1].idx = 1
    /\ Out[2].idx = 3

\* C2  Ordinal contiguity: the ordinals of the N returned rows that share a
\* key projection are exactly 1..N (stated for the tables without a column
\* named ordem).
C2_OrdinalContiguity ==
    (CoreReturned /\ ValidKeys /\ NoOrdemColumn) =>
        \A p \in DOMAIN Out :
            LET group == {q \in DOMAIN Out : InKey(q) = InKey(p)}
            IN  {Out[q].val[ORDEM] : q \in group} = 1..Cardinality(group)

\* C3  Difference correctness: a non-key column is listed in a record iff the
\* group's member rows hold more than one distinct value in it, a missing
\* value counting as a value (stated for the tables without a column named
\* ordem).
C3_DifferenceCorrectness ==
    (CoreReturned /\ ValidKeys /\ NoOrdemColumn) =>
        \A g \in DOMAIN result.summary :
            LET rec == result.summary[g]
                group == {q \in DOMAIN Out : InKey(q) = rec.key}
            IN  \A c \in Range(df.columns) \ Range(keys) :
                    (c \in Range(rec.difference_columns))
                        <=> Cardinality({InRow(q)[c] : q \in group}) > 1

\* the full row as a composite sort key: the key columns in key-list order,
\* then the remaining columns in schema order
FullRow(p) == InKey(p) \o Proj(InRow(p), non_key_columns(df, keys))

\* C4  Ordinal order: within a group the ordinals ascend with the full row
\* as composite sort key and the input position as last tie-break (stated for
\* the rows without a missing value, in the tables without a column named
\* ordem).
C4_OrdinalOrder ==
    (CoreReturned /\ ValidKeys /\ NoOrdemColumn) =>
        \A p, q \in DOMAIN Out :
            ( /\ InKey(p) = InKey(q)
              /\ NULL \notin Range(FullRow(p)) \cup Range(FullRow(q))
              /\ \/ TupleLess(FullRow(p), FullRow(q))
                 \/ (FullRow(p) = FullRow(q) /\ Out[p].idx < Out[q].idx) )
            => Out[p].val[ORDEM] < Out[q].val[ORDEM]

\* the table with its rows permuted by pi
Permuted(d, pi) ==
    [columns |-> d.columns,
     rows |-> [i \in DOMAIN d.rows |-> [idx |-> i, val |-> d.rows[pi[i]].val]]]

\* the ordinal of each logical row: (values on all input columns, ordinal)
Ordinals(d, res) ==
    {<<d.rows[res.rows.rows[p].idx].val, res.rows.rows[p].val[ORDEM]>> :
        p \in DOMAIN res.rows.rows}

\* C5  Determinism under permutation: on every permutation of the table's
\* rows the call gives each logical row the same ordinal and returns the same
\* set of records (stated for the tables without a column named ordem).
C5_PermutationDeterminism ==
    (CoreReturned /\ ValidKeys /\ NoOrdemColumn /\ ~Empty(result.rows)) =>
        \A pi \in Permutations(DOMAIN df.rows) :
            LET other == compute_duplicates(Permuted(df, pi), keys)
            IN  /\ Ordinals(Permuted(df, pi), other) = Ordinals(df, result)
                /\ Range(other.summary) = Range(result.summary)

\* C6  Key validation by the core: with an empty key list or a key that is
\* no column, the call fails and returns no rows and no records, on every
\* table.
C6_KeyValidation ==
    (CoreReturned /\ ~ValidKeys) =>
        /\ result.outcome \in {"KeyError", "ValueError"}
        /\ result.rows = NoDF
        /\ result.summary = <<>>

--------------------------------------------------------------------------
AllWhitespace(s) == \A i \in DOMAIN s : s[i] \in Whitespace

\* C7  Caller gating: index invokes compute_duplicates at most once, and only
\* for a POST whose query text was accepted, whose query ran, and whose key
\* list is non-empty and holds only columns of the result; a request failing
\* one of the four checks ends with a flashed message, no duplicate table, an
\* empty difference summary and no invocation.
C7_CallerGating ==
    /\ core_calls <= 1
    /\ core_calls > 0 =>
          /\ method = "POST"
          /\ query.ok
          /\ df # NoDF
          /\ keys # <<>>
          /\ \A i \in DOMAIN keys : keys[i] \in Range(df.columns)
    /\ (pc = "done" /\ method = "POST") =>
          LET failed ==
                IF AllWhitespace(source) THEN "invalid_query"
                ELSE IF df = NoDF THEN "query_error"
                ELSE IF keys = <<>> THEN "no_keys"
                ELSE IF \E i \in DOMAIN keys : keys[i] \notin Range(df.columns)
                     THEN "missing_keys"
                ELSE "none"
          IN  IF failed # "none"
              THEN /\ response.rendered
                   /\ response.message = failed
                   /\ response.flash \in {"danger", "info"}
                   /\ response.duplicates_table_is_none
                   /\ response.difference_summary = <<>>
                   /\ core_calls = 0
              ELSE core_calls = 1

\* a request that passed the four checks, called the core and shows a table
C7_Witness ==
    /\ pc = "done"
    /\ method = "POST"
    /\ core_calls = 1
    /\ ~response.duplicates_table_is_none
    /\ response.difference_summary # <<>>

\* C8  Rows and records agree: every returned row has exactly one record with
\* its key projection, whose duplicate_count is the number of returned rows
\* with that projection, and every record's key is the projection of a
\* returned row (stated for the tables without a column named ordem).
C8_RowsRecordsAgree ==
    (CoreReturned /\ ValidKeys /\ NoOrdemColumn) =>
        /\ \A p \in DOMAIN Out :
              LET k == Proj(Out[p].val, keys)
                  recs == {g \in DOMAIN result.summary : result.summary[g].key = k}
              IN  /\ Cardinality(recs) = 1
                  /\ \A g \in recs :
                        result.summary[g].duplicate_count =
                            Cardinality({q \in DOMAIN Out : Proj(Out[q].val, keys) = k})
        /\ \A g \in DOMAIN result.summary :
              \E p \in DOMAIN Out : Proj(Out[p].val, keys) = result.summary[g].key

--------------------------------------------------------------------------
QueryReturned == pc = "returned" /\ core_calls = 0

IdentifierChars ==
    {"s", "e", "l", "c", "t", "w", "i", "h", "f", "g", "o", "n", "x",
     "S", "E", "L", "C", "T", "W", "I", "H"}

IsBareIdentifier(s) == s # <<>> /\ \A i \in DOMAIN s : s[i] \in IdentifierChars

UpperChar(c) ==
    CASE c = "s" -> "S" [] c = "e" -> "E" [] c = "l" -> "L" [] c = "c" -> "C"
      [] c = "t" -> "T" [] c = "w" -> "W" [] c = "i" -> "I" [] c = "h" -> "H"
      [] OTHER -> c

\* s begins with the word kw in any letter case
BeginsWith(s, kw) ==
    Len(s) >= Len(kw) /\ \A n \in DOMAIN kw : s[n] \in {kw[n], UpperChar(kw[n])}

BeginsWithKeyword(s) == BeginsWith(s, kw_select) \/ BeginsWith(s, kw_with)

\* C9 as stated: the call fails iff the input is blank; an input beginning
\* with select or with in any letter case is returned verbatim; any other
\* bare identifier X is rewritten to SELECT * FROM X.
C9_QueryConventionVerbatim ==
    QueryReturned =>
        /\ ~query.ok <=> AllWhitespace(source)
        /\ (~AllWhitespace(source) /\ BeginsWithKeyword(source)) => query.text = source
        /\ (IsBareIdentifier(source) /\ ~BeginsWithKeyword(source))
              => query.text = SELECT_FROM \o source

\* C9 amended: the call fails iff the input is blank; otherwise, with X the
\* input without its leading and trailing whitespace, X is returned when it
\* begins with select or with in any letter case, and SELECT * FROM X when it
\* does not.
C9_QueryConventionTrimmed ==
    QueryReturned =>
        /\ ~query.ok <=> AllWhitespace(source)
        /\ ~AllWhitespace(source) =>
              \E i, j \in DOMAIN source :
                  /\ i <= j
                  /\ source[i] \notin Whitespace
                  /\ source[j] \notin Whitespace
                  /\ \A n \in DOMAIN source : (n < i \/ n > j) => source[n] \in Whitespace
                  /\ LET X == SubSeq(source, i, j)
                     IN  query.text = IF BeginsWithKeyword(X) THEN X
                                      ELSE SELECT_FROM \o X

\* a query with trailing whitespace is returned trimmed, not verbatim
C9_Witness ==
    /\ QueryReturned
    /\ BeginsWithKeyword(source)
    /\ source[Len(source)] \in Whitespace
    /\ query.ok
    /\ query.text # source
    /\ query.text = SubSeq(source, 1, Len(query.text))

--------------------------------------------------------------------------
\* C10  Input values are preserved: every returned row has, on the input
\* table's columns, exactly the values of an input row, and the returned
\* columns are the input's plus the ordinal column; also for a table that
\* already has a column named ordem.
C10_InputValuesPreserved ==
    (CoreReturned /\ ValidKeys /\ ~Empty(result.rows)) =>
        /\ Range(result.rows.columns) = Range(df.columns) \cup {ORDEM}
        /\ \A p \in DOMAIN Out :
              \E i \in DOMAIN df.rows :
                  \A c \in Range(df.columns) : Out[p].val[c] = df.rows[i].val[c]

==========================================================================
